---- MODULE Spec2Model ----
(***************************************************************************)
(* Vocabulary Builder: the rating engine (srs.ts), the session builder and *)
(* the session runtime of App.tsx, with the IndexedDB word store (db.ts).  *)
(*                                                                         *)
(* Time is counted in units of ten minutes.  ease is kept in hundredths    *)
(* (2.5 is 250): every ease the program produces from 2.5 by -0.2, -0.05   *)
(* and +0.1 is a multiple of 0.05.  Math.round is round-half-up.           *)
(* A word carries the fields the scheduler reads or writes; the texts      *)
(* (wordOrPhrase, meaningEn, ...) and the createdAt / updatedAt /          *)
(* lastReviewedAt stamps, which no decision reads, are left out.           *)
(* The visible tab (view) is left out too: the tabs switch freely, so every *)
(* button is one click away in every state; message is the last toast      *)
(* shown (its timed clearing is not modelled).                             *)
(***************************************************************************)
EXTENDS Integers, Sequences, FiniteSets, TLC

VARIABLES
    words,            \* React state: WordEntry[] (pool order)
    dbWords,          \* IndexedDB object store "words", keyed by id
    sessionConfig,    \* React state: SessionConfig
    sessionQueue,     \* React state: SessionItem[]
    sessionIndex,     \* React state: 0-based position in sessionQueue
    sessionStats,     \* React state: SessionStats
    sessionTimerRef,  \* useRef: id of the deadline timer, or NULL
    sessionAttempts,  \* React state: word id -> "again" count (0 when absent)
    sessionSeen,      \* React state: ids with sessionSeen[id] = true
    pendingRating,    \* React state: Rating | null
    message,          \* React state: the toast text
    timers,           \* pending window.setTimeout deadline timers
    timerSeq,         \* number of deadline timers armed so far (= sessions started)
    calls,            \* handleRating and handleImport invocations suspended on an await
    now,              \* the clock (Date.now()), in units of ten minutes
    topics,           \* React state: Topic[]
    dbTopics,         \* IndexedDB object store "topics", keyed by topicId
    importMode        \* React state: "merge" | "replace"

vars == <<words, dbWords, sessionConfig, sessionQueue, sessionIndex, sessionStats,
          sessionTimerRef, sessionAttempts, sessionSeen, pendingRating,
          message, timers, timerSeq, calls, now, topics, dbTopics, importMode>>

----------------------------------------------------------------------------
(* Bounds of the model: the clock, the session items built over a run (a *)
(* session queues every word of the pools used here), the handleRating  *)
(* calls suspended at once, the ratings answered in one session, and the *)
(* ratings answered in a session that is replaced by a new one.          *)

MaxNow == 1
MaxQueued == 2
MaxAnsweredAtRestart == 0
MaxInFlight == 2
MaxAnswered == 4

\* Bounds of the word-level specification: the lapses and the repetitions a
\* word may collect.
MaxLapses == 7
MaxReps == 2

\* Bounds of the mastery specification: a word is followed up to its sixth
\* consecutive correct rating, with few lapses.
MaxMasteryReps == 6
MaxMasteryLapses == 3

\* Bounds of the session-builder specification: the session sizes tried, and
\* the sizes for which the bucket targets are computed.
MaxSize == 5
MaxTargetSize == 50

\* Bound of the import specification: the handleImport calls suspended at once.
MaxImporting == 1

----------------------------------------------------------------------------
(* Program constants *)

NULL == -1
TenMinutes == 1
Day == 144
SessionTimeout == 1
MIN_EASE == 130
InitialEase == 250
Epoch == -2945000
Ratings == {"again", "hard", "good", "easy"}
MODES == <<"flashcards", "fill_blank", "spelling", "sentence">>

Min(a, b) == IF a <= b THEN a ELSE b
Max(a, b) == IF a >= b THEN a ELSE b

\* Math.round(num / den) for num >= 0, den > 0
Round(num, den) == (2 * num + den) \div (2 * den)

----------------------------------------------------------------------------
(* utils: createWord *)

createWord(id, topicId) ==
    [id |-> id, topicId |-> topicId, tags |-> {}, status |-> "new",
     dueAt |-> NULL, intervalDays |-> 0, ease |-> InitialEase, reps |-> 0,
     lapses |-> 0, rightCount |-> 0, wrongCount |-> 0, skipCount |-> 0]

----------------------------------------------------------------------------
(* srs.ts *)

addDays(t, days) == t + days * Day

\* a status resolution that asks for more than 21 days
resolveStatusAbove21(word, rating) ==
    IF word.status = "completed" /\ rating = "again" THEN "in_progress"
    ELSE IF word.reps >= 5 /\ word.intervalDays > 21 THEN "completed"
    ELSE IF word.status = "new" THEN "in_progress"
    ELSE word.status

\* a status resolution that asks for the repetitions only
resolveStatusByRepsOnly(word, rating) ==
    IF word.status = "completed" /\ rating = "again" THEN "in_progress"
    ELSE IF word.reps >= 5 THEN "completed"
    ELSE IF word.status = "new" THEN "in_progress"
    ELSE word.status

resolveStatus(word, rating) ==
    IF word.status = "completed" /\ rating = "again" THEN "in_progress"
    ELSE IF word.reps >= 5 /\ word.intervalDays >= 21 THEN "completed"
    ELSE IF word.status = "new" THEN "in_progress"
    ELSE word.status

\* "again" that keeps the repetitions
RateAgainKeepingReps(word, t) ==
    [word EXCEPT !.lapses = word.lapses + 1,
                 !.ease = Max(MIN_EASE, word.ease - 20),
                 !.intervalDays = 0,
                 !.dueAt = t + TenMinutes]

\* "again" without the Math.max(MIN_EASE, ...) floor
RateAgainUnfloored(word, t) ==
    [word EXCEPT !.reps = 0,
                 !.lapses = word.lapses + 1,
                 !.ease = word.ease - 20,
                 !.intervalDays = 0,
                 !.dueAt = t + TenMinutes]

RateAgain(word, t) ==
    [word EXCEPT !.reps = 0,
                 !.lapses = word.lapses + 1,
                 !.ease = Max(MIN_EASE, word.ease - 20),
                 !.intervalDays = 0,
                 !.dueAt = t + TenMinutes]

\* "hard" that multiplies the interval by 0.8
RateHardShrinking(word, t) ==
    LET iv == Max(1, Round(word.intervalDays * 8, 10))
    IN  [word EXCEPT !.ease = Max(MIN_EASE, word.ease - 5),
                     !.intervalDays = iv,
                     !.dueAt = addDays(t, iv),
                     !.reps = word.reps + 1]

\* "hard" without the minimum of one day
RateHardNoMinimum(word, t) ==
    LET iv == Round(word.intervalDays * 12, 10)
    IN  [word EXCEPT !.ease = Max(MIN_EASE, word.ease - 5),
                     !.intervalDays = iv,
                     !.dueAt = addDays(t, iv),
                     !.reps = word.reps + 1]

RateHard(word, t) ==
    LET iv == Max(1, Round(word.intervalDays * 12, 10))
    IN  [word EXCEPT !.ease = Max(MIN_EASE, word.ease - 5),
                     !.intervalDays = iv,
                     !.dueAt = addDays(t, iv),
                     !.reps = word.reps + 1]

\* "good" that multiplies from the first repetition on
RateGoodFromFirst(word, t) ==
    LET iv == IF word.reps = 0 THEN 1
              ELSE Round(word.intervalDays * word.ease, 100)
    IN  [word EXCEPT !.intervalDays = iv,
                     !.dueAt = addDays(t, iv),
                     !.reps = word.reps + 1]

RateGood(word, t) ==
    LET iv == IF word.reps = 0 THEN 1
              ELSE IF word.reps = 1 THEN 3
              ELSE Round(word.intervalDays * word.ease, 100)
    IN  [word EXCEPT !.intervalDays = iv,
                     !.dueAt = addDays(t, iv),
                     !.reps = word.reps + 1]

\* "easy" that multiplies by the ease before the increase
RateEasyOldEase(word, t) ==
    LET e  == word.ease + 10
        iv == Max(4, Round(word.intervalDays * word.ease * 13, 1000))
    IN  [word EXCEPT !.ease = e,
                     !.intervalDays = iv,
                     !.dueAt = addDays(t, iv),
                     !.reps = word.reps + 1]

RateEasy(word, t) ==
    LET e  == word.ease + 10
        iv == Max(4, Round(word.intervalDays * e * 13, 1000))
    IN  [word EXCEPT !.ease = e,
                     !.intervalDays = iv,
                     !.dueAt = addDays(t, iv),
                     !.reps = word.reps + 1]

applyRating(word, rating, t) ==
    LET updated == CASE rating = "again" -> RateAgain(word, t)
                     [] rating = "hard"  -> RateHard(word, t)
                     [] rating = "good"  -> RateGood(word, t)
                     [] rating = "easy"  -> RateEasy(word, t)
    IN  [updated EXCEPT !.status = resolveStatus(updated, rating)]

\* a due test that leaves out the instant dueAt itself
isDueStrictlyAfter(word, t) == word.dueAt = NULL \/ word.dueAt < t

isDue(word, t) == word.dueAt = NULL \/ word.dueAt <= t

----------------------------------------------------------------------------
(* Math.random(): Math.floor(Math.random() * n) is any of 0 .. n-1 *)

RandomInt(n) == 0 .. (n - 1)

----------------------------------------------------------------------------
(* App.tsx: buildSession *)

\* a filter that ignores the tags
MatchesTopicOnly(word, config) ==
    config.topicId = "all" \/ word.topicId = config.topicId

MatchesFilters(word, config) ==
    /\ config.topicId = "all" \/ word.topicId = config.topicId
    /\ config.tags = {} \/ config.tags \cap word.tags # {}

\* the sort keys of the two comparators (a - b ascending; b - a descending)
\* (a missing dueAt compares as getTime() = 0, the 1970 epoch, which lies
\* Epoch ten-minute units before the time the model counts from)
DueKey(word) == IF word.dueAt = NULL THEN Epoch ELSE word.dueAt
HardnessKey(word) == 0 - (word.lapses + word.wrongCount)

\* Array.prototype.sort with a comparator key(a) - key(b): stable, ascending.
\* The entries are (key, word) pairs.
RECURSIVE InsertByKey(_, _)
InsertByKey(sorted, x) ==
    IF sorted = <<>> THEN <<x>>
    ELSE IF Head(sorted).key <= x.key
         THEN <<Head(sorted)>> \o InsertByKey(Tail(sorted), x)
         ELSE <<x>> \o sorted

RECURSIVE SortPairs(_)
SortPairs(pairs) ==
    IF pairs = <<>> THEN <<>>
    ELSE InsertByKey(SortPairs(SubSeq(pairs, 1, Len(pairs) - 1)), pairs[Len(pairs)])

\* a sort that leaves the sequence as it is
Unsorted(seq) == seq

\* due.sort(...): earliest dueAt first
SortByDue(seq) ==
    LET sorted == SortPairs([i \in 1..Len(seq) |-> [key |-> DueKey(seq[i]), word |-> seq[i]]])
    IN  [i \in 1..Len(seq) |-> sorted[i].word]

\* inProgress.sort(...): most lapses + wrongCount first
SortByHardness(seq) ==
    LET sorted == SortPairs([i \in 1..Len(seq) |-> [key |-> HardnessKey(seq[i]), word |-> seq[i]]])
    IN  [i \in 1..Len(seq) |-> sorted[i].word]

\* Array.prototype.slice(0, n)
\* a slice that takes everything
SliceAll(seq, n) == seq

Slice(seq, n) == SubSeq(seq, 1, Min(Len(seq), Max(n, 0)))

\* a due target of half the size
DueTargetHalf(size) == Min(size, Round(size * 5, 10))

DueTarget(size) == Min(size, Round(size * 6, 10))
InProgressTarget(size) == Min(size - DueTarget(size), Round(size * 25, 100))
NewTarget(size) == Max(0, size - DueTarget(size) - InProgressTarget(size))

Tagged(seq, origin) == [i \in 1..Len(seq) |-> [id |-> seq[i].id, origin |-> origin]]

\* a backfill that tags a completed word as due
BackfillOriginDue(word) ==
    IF word.status = "new" THEN "new"
    ELSE IF word.status = "completed" THEN "due"
    ELSE "in_progress"

BackfillOrigin(word) == IF word.status = "new" THEN "new" ELSE "in_progress"

\* a backfill source that keeps the words already selected
RemainingWithSelected(filtered, pickedIds) == filtered

\* filtered.filter((word) => !selection.some((s) => s.id === word.id))
Remaining(filtered, pickedIds) == SelectSeq(filtered, LAMBDA w : w.id \notin pickedIds)

\* the selection before modes are drawn and before the shuffle: (id, origin) pairs
Selection(ws, config, t) ==
    LET filtered   == SelectSeq(ws, LAMBDA w : MatchesFilters(w, config))
        due        == SelectSeq(filtered, LAMBDA w : w.status # "new" /\ isDue(w, t))
        inProgress == SelectSeq(filtered, LAMBDA w : w.status = "in_progress" /\ ~isDue(w, t))
        newWords   == SelectSeq(filtered, LAMBDA w : w.status = "new")
        dueSorted        == SortByDue(due)
        inProgressSorted == SortByHardness(inProgress)
        size       == config.size
        picked     == Tagged(Slice(dueSorted, DueTarget(size)), "due")
                      \o Tagged(Slice(inProgressSorted, InProgressTarget(size)), "in_progress")
                      \o Tagged(Slice(newWords, NewTarget(size)), "new")
        pickedIds  == {picked[i].id : i \in 1..Len(picked)}
        remaining  == Remaining(filtered, pickedIds)
        backfill   == Slice(remaining, size - Len(picked))
    IN  IF Len(picked) < size
        THEN picked \o [i \in 1..Len(backfill) |->
                          [id |-> backfill[i].id, origin |-> BackfillOrigin(backfill[i])]]
        ELSE picked

\* pushItem: the mode of each item (pickRandom(MODES) when config.mode is "mixed")
ModeChoices(config) ==
    IF config.mode = "mixed" THEN {MODES[k + 1] : k \in RandomInt(Len(MODES))}
    ELSE {config.mode}

WithModes(sel, config) ==
    {[i \in 1..Len(sel) |-> [id |-> sel[i].id, mode |-> m[i], origin |-> sel[i].origin]] :
        m \in [1..Len(sel) -> ModeChoices(config)]}

Swap(seq, i, j) == [seq EXCEPT ![i] = seq[j], ![j] = seq[i]]

\* shuffle: Fisher-Yates from the last position down (positions are 1-based here)
RECURSIVE ShuffleFrom(_, _)
ShuffleFrom(copy, i) ==
    IF i <= 1 THEN {copy}
    ELSE UNION {ShuffleFrom(Swap(copy, i, j + 1), i - 1) : j \in RandomInt(i)}

shuffle(list) == ShuffleFrom(list, Len(list))

\* every queue buildSession can return
buildSession(ws, config, t) ==
    UNION {shuffle(sel) : sel \in WithModes(Selection(ws, config, t), config)}

----------------------------------------------------------------------------
(* App.tsx: the state after the component has mounted and loaded the store *)

NoRating == "null"

emptyStats(t) ==
    [total |-> 0, answered |-> 0, correct |-> 0, dueDone |-> 0, newIntroduced |-> 0,
     movedCompleted |-> 0, lapses |-> 0, startedAt |-> t, finishedAt |-> NULL]

\* a word four times rated "good" from new (intervals 1, 3, 8, 20), due at 1
Learned(id) ==
    [createWord(id, "t1") EXCEPT !.status = "in_progress", !.reps = 4,
                                 !.intervalDays = 20, !.rightCount = 4, !.dueAt = 1]

\* a word five times rated "good" from new (intervals 1, 3, 8, 20, 50), due at 0
Mastered(id) ==
    [createWord(id, "t1") EXCEPT !.status = "completed", !.reps = 5,
                                 !.intervalDays = 50, !.rightCount = 5, !.dueAt = 0]

FlashcardsConfig == [size |-> 20, mode |-> "flashcards", topicId |-> "all", tags |-> {}]
SpellingConfig == [size |-> 20, mode |-> "spelling", topicId |-> "all", tags |-> {}]

\* what the store holds when the component mounts, and the session setup chosen
Scenarios ==
    { [words |-> <<>>, config |-> FlashcardsConfig],
      [words |-> <<createWord(1, "t1")>>, config |-> SpellingConfig],
      [words |-> <<Mastered(1)>>, config |-> FlashcardsConfig],
      [words |-> <<createWord(1, "t1"), Learned(2)>>, config |-> FlashcardsConfig] }

\* the topics store as a map from topicId to record
TopicStoreOf(ts) ==
    [topicId \in {ts[i].topicId : i \in 1..Len(ts)} |->
        (CHOOSE t \in {ts[i] : i \in 1..Len(ts)} : t.topicId = topicId)]

\* the topics the words of the pools belong to
LoadedTopics ==
    <<[topicId |-> "t1", name |-> "Verbs"], [topicId |-> "t2", name |-> "Nouns"]>>

\* the object store as a map from key to record
StoreOf(ws) ==
    [id \in {ws[i].id : i \in 1..Len(ws)} |->
        (CHOOSE w \in {ws[i] : i \in 1..Len(ws)} : w.id = id)]

Init ==
    /\ \E sc \in Scenarios : words = sc.words /\ sessionConfig = sc.config
    /\ dbWords = StoreOf(words)
    /\ sessionQueue = <<>>
    /\ sessionIndex = 0
    /\ sessionStats = emptyStats(0)
    /\ sessionTimerRef = NULL
    /\ sessionAttempts = <<>>
    /\ sessionSeen = {}
    /\ pendingRating = NoRating
    /\ message = ""
    /\ timers = {}
    /\ timerSeq = 0
    /\ calls = <<>>
    /\ topics = LoadedTopics
    /\ dbTopics = TopicStoreOf(topics)
    /\ importMode = "merge"
    /\ now = 0

----------------------------------------------------------------------------
(* db.ts *)

\* store.put(word): upsert by key
putWord(store, word) ==
    [id \in DOMAIN store \cup {word.id} |-> IF id = word.id THEN word ELSE store[id]]

----------------------------------------------------------------------------
(* App.tsx: session runtime *)

\* window.clearTimeout(id)
clearTimeout(pending, id) == {t \in pending : t.id # id}

\* time passes
Tick ==
    /\ now < MaxNow
    /\ now' = now + 1
    /\ UNCHANGED <<topics, dbTopics, importMode, words, dbWords, sessionConfig, sessionQueue, sessionIndex,
                   sessionStats, sessionTimerRef, sessionAttempts, sessionSeen,
                   pendingRating, message, timers, timerSeq, calls>>

\* a deadline callback that neither ends the session nor reports the timeout
TimerFireSilently(t) ==
    /\ t \in timers
    /\ now >= t.at
    /\ timers' = timers \ {t}
    /\ UNCHANGED <<topics, dbTopics, importMode, words, dbWords, sessionConfig, sessionQueue, sessionIndex,
                   sessionStats, sessionTimerRef, sessionAttempts, sessionSeen,
                   pendingRating, message, timerSeq, calls, now>>

\* the callback of the deadline timer armed by handleStartSession
TimerFire(t) ==
    /\ t \in timers
    /\ now >= t.at
    /\ timers' = timers \ {t}
    /\ sessionStats' = [sessionStats EXCEPT !.finishedAt = now]
    /\ message' = "Session timed out after 10 minutes."
    /\ UNCHANGED <<topics, dbTopics, importMode, words, dbWords, sessionConfig, sessionQueue, sessionIndex,
                   sessionTimerRef, sessionAttempts, sessionSeen, pendingRating,
                   timerSeq, calls, now>>

\* arming the new deadline timer without clearing the pending one
RearmedWithoutClear(pending, ref, id, t) ==
    pending \cup {[id |-> id, at |-> t + SessionTimeout]}

\* handleStartSession: clear the pending deadline timer, arm the new one
RearmedTimers(pending, ref, id, t) ==
    (IF ref # NULL THEN clearTimeout(pending, ref) ELSE pending)
        \cup {[id |-> id, at |-> t + SessionTimeout]}

\* a start that clears the pending timer before it looks at the selection
handleStartSessionClearingFirst ==
    /\ timerSeq = 0 \/ (timerSeq + 1) * Len(words) <= MaxQueued
    /\ sessionStats.answered <= MaxAnsweredAtRestart
    /\ now < MaxNow
    /\ \E selection \in buildSession(words, sessionConfig, now) :
         IF Len(selection) = 0
         THEN /\ message' = "No words match the current filters."
              /\ timers' = IF sessionTimerRef # NULL
                           THEN clearTimeout(timers, sessionTimerRef) ELSE timers
              /\ UNCHANGED <<topics, dbTopics, importMode, words, dbWords, sessionConfig, sessionQueue, sessionIndex,
                             sessionStats, sessionTimerRef, sessionAttempts, sessionSeen,
                             pendingRating, timerSeq, calls, now>>
         ELSE /\ sessionQueue' = selection
              /\ sessionIndex' = 0
              /\ sessionStats' = [emptyStats(now) EXCEPT !.total = Len(selection)]
              /\ sessionAttempts' = <<>>
              /\ sessionSeen' = {}
              /\ pendingRating' = NoRating
              /\ timerSeq' = timerSeq + 1
              /\ timers' = RearmedTimers(timers, sessionTimerRef, timerSeq + 1, now)
              /\ sessionTimerRef' = timerSeq + 1
              /\ UNCHANGED <<topics, dbTopics, importMode, words, dbWords, sessionConfig, message, calls, now>>

\* the "Start session" button of the Manage view.  The first session of a run
\* is always allowed; MaxQueued bounds the sessions that follow it.
handleStartSession ==
    /\ timerSeq = 0 \/ (timerSeq + 1) * Len(words) <= MaxQueued
    /\ sessionStats.answered <= MaxAnsweredAtRestart
    /\ now < MaxNow
    /\ \E selection \in buildSession(words, sessionConfig, now) :
         IF Len(selection) = 0
         THEN /\ message' = "No words match the current filters."
              /\ UNCHANGED <<topics, dbTopics, importMode, words, dbWords, sessionConfig, sessionQueue, sessionIndex,
                             sessionStats, sessionTimerRef, sessionAttempts, sessionSeen,
                             pendingRating, timers, timerSeq, calls, now>>
         ELSE /\ sessionQueue' = selection
              /\ sessionIndex' = 0
              /\ sessionStats' = [emptyStats(now) EXCEPT !.total = Len(selection)]
              /\ sessionAttempts' = <<>>
              /\ sessionSeen' = {}
              /\ pendingRating' = NoRating
              /\ timerSeq' = timerSeq + 1
              /\ timers' = RearmedTimers(timers, sessionTimerRef, timerSeq + 1, now)
              /\ sessionTimerRef' = timerSeq + 1
              /\ UNCHANGED <<topics, dbTopics, importMode, words, dbWords, sessionConfig, message, calls, now>>

HasItem == sessionIndex < Len(sessionQueue)
currentItem == sessionQueue[sessionIndex + 1]
HasWord == HasItem /\ \E i \in 1..Len(words) : words[i].id = currentItem.id
currentWord ==
    words[CHOOSE i \in 1..Len(words) :
            /\ words[i].id = currentItem.id
            /\ \A j \in 1..(i - 1) : words[j].id # currentItem.id]

\* sessionAttempts[id] ?? 0
AttemptsOf(attempts, id) == IF id \in DOMAIN attempts THEN attempts[id] ELSE 0

\* prev.map((w) => (w.id === updated.id ? updated : w))
ReplaceWord(prev, updated) ==
    [i \in 1..Len(prev) |-> IF prev[i].id = updated.id THEN updated ELSE prev[i]]

\* next.splice(insertAt, 0, reinsertion)
Splice(prev, insertAt, item) ==
    LET at == Min(insertAt, Len(prev))
    IN  SubSeq(prev, 1, at) \o <<item>> \o SubSeq(prev, at + 1, Len(prev))

RemoveAt(seq, k) == SubSeq(seq, 1, k - 1) \o SubSeq(seq, k + 1, Len(seq))

\* the word handleRating writes: applyRating, the counters, the status overrides
RatedWord(word, rating, manualAnswer, isNewIntro, t) ==
    LET updatedBase == applyRating(word, rating, t)
        counted == [updatedBase EXCEPT
                      !.rightCount = IF rating = "again" THEN word.rightCount
                                     ELSE word.rightCount + 1,
                      !.wrongCount = IF rating = "again" THEN word.wrongCount + 1
                                     ELSE word.wrongCount,
                      !.skipCount  = IF rating = "again" /\ manualAnswer = "skip"
                                     THEN word.skipCount + 1 ELSE word.skipCount]
        demoted == IF rating = "again" /\ word.status = "completed"
                   THEN [counted EXCEPT !.status = "in_progress"] ELSE counted
    IN  IF isNewIntro THEN [demoted EXCEPT !.status = "in_progress"] ELSE demoted

\* stats that count every rating as correct
RatedStatsAllCorrect(prev, item, word, updated, rating, isNewIntro) ==
    [prev EXCEPT
       !.lapses = IF rating = "again" THEN prev.lapses + 1 ELSE prev.lapses,
       !.movedCompleted = IF updated.status = "completed" /\ word.status # "completed"
                          THEN prev.movedCompleted + 1 ELSE prev.movedCompleted,
       !.newIntroduced = IF isNewIntro THEN prev.newIntroduced + 1 ELSE prev.newIntroduced,
       !.dueDone = IF item.origin = "due" THEN prev.dueDone + 1 ELSE prev.dueDone,
       !.answered = prev.answered + 1,
       !.correct = prev.correct + 1]

\* stats that count a "hard" as a lapse too
RatedStatsHardLapse(prev, item, word, updated, rating, isNewIntro) ==
    [prev EXCEPT
       !.lapses = IF rating \in {"again", "hard"} THEN prev.lapses + 1 ELSE prev.lapses,
       !.movedCompleted = IF updated.status = "completed" /\ word.status # "completed"
                          THEN prev.movedCompleted + 1 ELSE prev.movedCompleted,
       !.newIntroduced = IF isNewIntro THEN prev.newIntroduced + 1 ELSE prev.newIntroduced,
       !.dueDone = IF item.origin = "due" THEN prev.dueDone + 1 ELSE prev.dueDone,
       !.answered = prev.answered + 1,
       !.correct = prev.correct + (IF rating = "again" THEN 0 ELSE 1)]

\* the setSessionStats updaters of one handleRating call, composed
RatedStats(prev, item, word, updated, rating, isNewIntro) ==
    [prev EXCEPT
       !.lapses = IF rating = "again" THEN prev.lapses + 1 ELSE prev.lapses,
       !.movedCompleted = IF updated.status = "completed" /\ word.status # "completed"
                          THEN prev.movedCompleted + 1 ELSE prev.movedCompleted,
       !.newIntroduced = IF isNewIntro THEN prev.newIntroduced + 1 ELSE prev.newIntroduced,
       !.dueDone = IF item.origin = "due" THEN prev.dueDone + 1 ELSE prev.dueDone,
       !.answered = prev.answered + 1,
       !.correct = prev.correct + (IF rating = "again" THEN 0 ELSE 1)]

\* handleRating up to its first await: the call is suspended on putWord(updated)
\* holding the sessionQueue, sessionIndex and sessionAttempts of its render.
handleRating(rating, manualAnswer) ==
    /\ HasWord
    /\ Len(calls) < MaxInFlight
    /\ sessionStats.answered < MaxAnswered
    /\ LET item == currentItem
           word == currentWord
           isNewIntro == word.status = "new" /\ word.id \notin sessionSeen
           updated == RatedWord(word, rating, manualAnswer, isNewIntro, now)
       IN  /\ sessionStats' = RatedStats(sessionStats, item, word, updated, rating, isNewIntro)
           /\ calls' = Append(calls,
                  [pc |-> "putWord", rating |-> rating, item |-> item, word |-> updated,
                   sessionQueue |-> sessionQueue, sessionIndex |-> sessionIndex,
                   sessionAttempts |-> sessionAttempts])
    /\ UNCHANGED <<topics, dbTopics, importMode, words, dbWords, sessionConfig, sessionQueue, sessionIndex,
                   sessionTimerRef, sessionAttempts, sessionSeen, pendingRating, message, timers, timerSeq, now>>

\* the Again / Hard / Good / Easy buttons (flashcards) and Done / Not sure /
\* I don't know (sentence)
RateButton(rating) ==
    /\ HasWord
    /\ \/ currentItem.mode = "flashcards"
       \/ currentItem.mode = "sentence" /\ rating # "easy"
    /\ handleRating(rating, "none")

handleSkip ==
    /\ HasWord
    /\ handleRating("again", "skip")

\* Submit (fill_blank, spelling): the answer decides the pending rating
handleSubmit ==
    /\ HasWord
    /\ currentItem.mode \in {"fill_blank", "spelling"}
    /\ pendingRating = NoRating
    /\ pendingRating' \in {"again", "hard", "good"}
    /\ UNCHANGED <<topics, dbTopics, importMode, words, dbWords, sessionConfig, sessionQueue, sessionIndex,
                   sessionStats, sessionTimerRef, sessionAttempts, sessionSeen, message, timers, timerSeq, calls, now>>

\* Continue (shown with the answer card of fill_blank and spelling)
handleContinue ==
    /\ HasWord
    /\ currentItem.mode \in {"fill_blank", "spelling"}
    /\ pendingRating # NoRating
    /\ handleRating(pendingRating, "none")

\* advanceSession, run by a resumed call with the queue and index of its render
advanceSession(c) ==
    LET nextIndex == c.sessionIndex + 1
    IN  IF nextIndex >= Len(c.sessionQueue)
        THEN /\ sessionStats' = [sessionStats EXCEPT !.finishedAt = now]
             /\ timers' = IF sessionTimerRef # NULL
                          THEN clearTimeout(timers, sessionTimerRef) ELSE timers
             /\ sessionTimerRef' = NULL
             /\ message' = "Session complete."
             /\ UNCHANGED <<sessionIndex, pendingRating>>
        ELSE /\ sessionIndex' = nextIndex
             /\ pendingRating' = NoRating
             /\ UNCHANGED <<sessionStats, timers, sessionTimerRef, message>>

\* a limit that lets the third "again" through
AttemptLimitAfterThree(attempts) == attempts > 3

\* if (attempts >= 3)
AttemptLimitReached(attempts) == attempts >= 3

\* the postponed word: dueAt a day from now
Postponed(updated, t) == [updated EXCEPT !.dueAt = t + Day]

\* insertAt = Math.min(sessionQueue.length, sessionIndex + offset), offset = 5 + r
InsertAt(queueLength, index, r) == Min(queueLength, index + 5 + r)

\* putWord(updated) has resolved: handleRating runs on to its end or to the
\* second await (putWord(postponed))
RatingStored(k) ==
    /\ k \in 1..Len(calls)
    /\ calls[k].pc = "putWord"
    /\ LET c == calls[k]
           attempts == AttemptsOf(c.sessionAttempts, c.word.id) + 1
       IN  /\ dbWords' = putWord(dbWords, c.word)
           /\ words' = ReplaceWord(words, c.word)
           /\ sessionSeen' = sessionSeen \cup {c.word.id}
           /\ IF c.rating = "again"
              THEN /\ sessionAttempts' =
                        [id \in DOMAIN sessionAttempts \cup {c.word.id} |->
                            IF id = c.word.id THEN attempts ELSE sessionAttempts[id]]
                   /\ IF AttemptLimitReached(attempts)
                      THEN /\ calls' = [calls EXCEPT ![k] =
                                  [c EXCEPT !.pc = "putPostponed",
                                            !.word = Postponed(c.word, now)]]
                           /\ UNCHANGED <<sessionQueue, sessionIndex, sessionStats,
                                          sessionTimerRef, pendingRating, message, timers>>
                      ELSE /\ \E r \in RandomInt(3) :
                                sessionQueue' =
                                    Splice(sessionQueue,
                                           InsertAt(Len(c.sessionQueue), c.sessionIndex, r),
                                           c.item)
                           /\ advanceSession(c)
                           /\ calls' = RemoveAt(calls, k)
              ELSE /\ advanceSession(c)
                   /\ calls' = RemoveAt(calls, k)
                   /\ UNCHANGED <<sessionQueue, sessionAttempts>>
    /\ UNCHANGED <<topics, dbTopics, importMode, sessionConfig, timerSeq, now>>

\* putWord(postponed) has resolved
PostponedStored(k) ==
    /\ k \in 1..Len(calls)
    /\ calls[k].pc = "putPostponed"
    /\ dbWords' = putWord(dbWords, calls[k].word)
    /\ words' = ReplaceWord(words, calls[k].word)
    /\ advanceSession(calls[k])
    /\ calls' = RemoveAt(calls, k)
    /\ UNCHANGED <<topics, dbTopics, importMode, sessionConfig, sessionQueue, sessionAttempts, sessionSeen,
                   timerSeq, now>>

\* a putWord request fails (request.onerror): the await throws and the call ends
PutRejected(k) ==
    /\ k \in 1..Len(calls)
    /\ calls' = RemoveAt(calls, k)
    /\ UNCHANGED <<topics, dbTopics, importMode, words, dbWords, sessionConfig, sessionQueue, sessionIndex,
                   sessionStats, sessionTimerRef, sessionAttempts, sessionSeen,
                   pendingRating, message, timers, timerSeq, now>>

Next ==
    \/ handleStartSession
    \/ \E rating \in Ratings : RateButton(rating)
    \/ handleSkip
    \/ handleSubmit
    \/ handleContinue
    \/ \E k \in 1..MaxInFlight : RatingStored(k)
    \/ \E k \in 1..MaxInFlight : PostponedStored(k)
    \/ \E k \in 1..MaxInFlight : PutRejected(k)
    \/ \E t \in timers : TimerFire(t)
    \/ Tick

Spec == Init /\ [][Next]_vars

\* The browser runs a timer callback once its delay has elapsed, and time passes.
SpecFair ==
    /\ Init
    /\ [][Next]_vars
    /\ WF_vars(Tick)
    /\ WF_vars(\E t \in timers : TimerFire(t))

----------------------------------------------------------------------------
(* The life of one word: a freshly created word rated again and again, by   *)
(* applyRating alone or by handleRating (applyRating, the counters, the     *)
(* status overrides, the postponement of the third "again").  Only the word *)
(* is followed; the session around it stays as it is after mounting.        *)

InitSrs ==
    /\ words = <<createWord(1, "t1")>>
    /\ sessionConfig = FlashcardsConfig
    /\ dbWords = StoreOf(words)
    /\ sessionQueue = <<>>
    /\ sessionIndex = 0
    /\ sessionStats = emptyStats(0)
    /\ sessionTimerRef = NULL
    /\ sessionAttempts = <<>>
    /\ sessionSeen = {}
    /\ pendingRating = NoRating
    /\ message = ""
    /\ timers = {}
    /\ timerSeq = 0
    /\ calls = <<>>
    /\ topics = LoadedTopics
    /\ dbTopics = TopicStoreOf(topics)
    /\ importMode = "merge"
    /\ now = 0

Rateable(word, rating) ==
    IF rating = "again" THEN word.lapses < MaxLapses ELSE word.reps < MaxReps

\* applyRating(word, rating, now)
SrsApplyRating(rating) ==
    /\ Rateable(words[1], rating)
    /\ words' = <<applyRating(words[1], rating, now)>>
    /\ UNCHANGED <<topics, dbTopics, importMode, dbWords, sessionConfig, sessionQueue, sessionIndex, sessionStats,
                   sessionTimerRef, sessionAttempts, sessionSeen, pendingRating,
                   message, timers, timerSeq, calls, now>>

\* the word handleRating leaves in the collection: updated, or postponed when
\* the rating is the word's third "again" of the session
SrsHandleRating(rating, manualAnswer) ==
    /\ Rateable(words[1], rating)
    /\ LET word == words[1]
           isNewIntro == word.status = "new" /\ word.id \notin sessionSeen
           updated == RatedWord(word, rating, manualAnswer, isNewIntro, now)
       IN  /\ \/ words' = <<updated>>
              \/ rating = "again" /\ words' = <<Postponed(updated, now)>>
           /\ sessionSeen' = sessionSeen \cup {word.id}
    /\ UNCHANGED <<topics, dbTopics, importMode, dbWords, sessionConfig, sessionQueue, sessionIndex, sessionStats,
                   sessionTimerRef, sessionAttempts, pendingRating,
                   message, timers, timerSeq, calls, now>>

NextSrs ==
    \/ \E rating \in Ratings : SrsApplyRating(rating)
    \/ \E rating \in Ratings, manualAnswer \in {"none", "skip"} :
          SrsHandleRating(rating, manualAnswer)

SpecSrs == InitSrs /\ [][NextSrs]_vars

----------------------------------------------------------------------------
(* The way of one word to mastery: a freshly created word rated in sessions *)
(* (handleRating) up to six consecutive correct ratings.                    *)

\* handleRating on the word, with the postponement of a third "again"
SessionRating(rating, manualAnswer) ==
    /\ IF rating = "again" THEN words[1].lapses < MaxMasteryLapses
       ELSE words[1].reps < MaxMasteryReps
    /\ LET word == words[1]
           isNewIntro == word.status = "new" /\ word.id \notin sessionSeen
           updated == RatedWord(word, rating, manualAnswer, isNewIntro, now)
       IN  /\ \/ words' = <<updated>>
              \/ rating = "again" /\ words' = <<Postponed(updated, now)>>
           /\ sessionSeen' = sessionSeen \cup {word.id}
    /\ UNCHANGED <<topics, dbTopics, importMode, dbWords, sessionConfig, sessionQueue,
                   sessionIndex, sessionStats, sessionTimerRef, sessionAttempts,
                   pendingRating, message, timers, timerSeq, calls, now>>

NextMastery ==
    \E rating \in Ratings, manualAnswer \in {"none", "skip"} :
       SessionRating(rating, manualAnswer)

SpecMastery == InitSrs /\ [][NextMastery]_vars

----------------------------------------------------------------------------
(* applyRating on its own: one call on a word record of any content (the   *)
(* store takes whatever an imported file holds).  words holds the input and, *)
(* after the call, the record applyRating returned; the input is left as it *)
(* is, as applyRating works on a copy.                                      *)

InputEases == {100, 130, 150, 200, 210, 250}
InputIntervals == {0, 1, 3, 10, 20}
InputReps == {0, 1, 2, 4, 5}
InputLapses == {0, 2}
InputStatuses == {"new", "in_progress", "completed"}

InputWords ==
    {[createWord(1, "t1") EXCEPT !.ease = e, !.intervalDays = iv, !.reps = r,
                                !.lapses = l, !.status = st] :
        e \in InputEases, iv \in InputIntervals, r \in InputReps,
        l \in InputLapses, st \in InputStatuses}

InitApply ==
    /\ \E w \in InputWords : words = <<w>>
    /\ now \in 0..MaxNow
    /\ sessionConfig = FlashcardsConfig
    /\ dbWords = StoreOf(words)
    /\ sessionQueue = <<>>
    /\ sessionIndex = 0
    /\ sessionStats = emptyStats(0)
    /\ sessionTimerRef = NULL
    /\ sessionAttempts = <<>>
    /\ sessionSeen = {}
    /\ pendingRating = NoRating
    /\ message = ""
    /\ timers = {}
    /\ timerSeq = 0
    /\ calls = <<>>
    /\ topics = LoadedTopics
    /\ dbTopics = TopicStoreOf(topics)
    /\ importMode = "merge"

\* const updated = applyRating(word, rating, now)
ApplyRatingOnce(rating) ==
    /\ Len(words) = 1
    /\ words' = <<words[1], applyRating(words[1], rating, now)>>
    /\ UNCHANGED <<topics, dbTopics, importMode, dbWords, sessionConfig, sessionQueue, sessionIndex, sessionStats,
                   sessionTimerRef, sessionAttempts, sessionSeen, pendingRating,
                   message, timers, timerSeq, calls, now>>

\* the word handleRating builds from the current word and stores (updated)
HandleRatingOnce(rating, manualAnswer) ==
    /\ Len(words) = 1
    /\ LET word == words[1]
           isNewIntro == word.status = "new" /\ word.id \notin sessionSeen
       IN  words' = <<word, RatedWord(word, rating, manualAnswer, isNewIntro, now)>>
    /\ UNCHANGED <<topics, dbTopics, importMode, dbWords, sessionConfig, sessionQueue, sessionIndex, sessionStats,
                   sessionTimerRef, sessionAttempts, sessionSeen, pendingRating,
                   message, timers, timerSeq, calls, now>>

NextApply ==
    \/ \E rating \in Ratings : ApplyRatingOnce(rating)
    \/ \E rating \in Ratings, manualAnswer \in {"none", "skip"} :
          HandleRatingOnce(rating, manualAnswer)

SpecApply == InitApply /\ [][NextApply]_vars

----------------------------------------------------------------------------
(* The session builder behind "Start session": pools with words of every    *)
(* bucket, of two topics, with and without a tag; the session setup of the  *)
(* Manage view (size, topic filter, tag filter, mode).                      *)

\* a completed word that is not due
Resting(id) == [Mastered(id) EXCEPT !.dueAt = 50 * Day]

TaggedA(word) == [word EXCEPT !.tags = {"a"}]

BigPool ==
    << Mastered(1),
       [Learned(2) EXCEPT !.dueAt = 0],
       [Mastered(3) EXCEPT !.dueAt = NULL],
       Learned(4),
       TaggedA([Learned(5) EXCEPT !.lapses = 2]),
       createWord(6, "t1"),
       TaggedA(createWord(7, "t2")),
       TaggedA(Resting(8)) >>

BuildPools ==
    { <<>>,
      <<createWord(1, "t2")>>,
      <<TaggedA(Mastered(1)), Learned(2), createWord(3, "t2"), Resting(4)>>,
      BigPool }

BuildConfigs ==
    {[size |-> size, mode |-> "flashcards", topicId |-> topicId, tags |-> tags] :
        size \in 1..MaxSize, topicId \in {"all", "t1"}, tags \in {{}, {"a"}}}
    \cup {[size |-> 2, mode |-> "mixed", topicId |-> "all", tags |-> {}]}

InitBuild ==
    /\ words \in BuildPools
    /\ sessionConfig \in BuildConfigs
    /\ dbWords = StoreOf(words)
    /\ sessionQueue = <<>>
    /\ sessionIndex = 0
    /\ sessionStats = emptyStats(0)
    /\ sessionTimerRef = NULL
    /\ sessionAttempts = <<>>
    /\ sessionSeen = {}
    /\ pendingRating = NoRating
    /\ message = ""
    /\ timers = {}
    /\ timerSeq = 0
    /\ calls = <<>>
    /\ topics = LoadedTopics
    /\ dbTopics = TopicStoreOf(topics)
    /\ importMode = "merge"
    /\ now = 0

\* the "Topic filter" select of the Manage view
SetTopicFilter(topicId) ==
    /\ sessionConfig' = [sessionConfig EXCEPT !.topicId = topicId]
    /\ UNCHANGED <<topics, dbTopics, importMode, words, dbWords, sessionQueue, sessionIndex, sessionStats,
                   sessionTimerRef, sessionAttempts, sessionSeen, pendingRating,
                   message, timers, timerSeq, calls, now>>

NextBuild ==
    \/ handleStartSession
    \/ \E topicId \in {"all", "t1", "t2"} : SetTopicFilter(topicId)

SpecBuild == InitBuild /\ [][NextBuild]_vars

----------------------------------------------------------------------------
(* Import of a JSON file (handleImport), with the topics and the words      *)
(* store.  A file is the text file.text() gives: it either parses or makes   *)
(* JSON.parse throw, and a parsed value is null or an object that may lack   *)
(* the topics or the words array.  A call is suspended at file.text() and at *)
(* every store request; it keeps the importMode, topics and words of the     *)
(* render it was made in.                                                    *)

SCHEMA_VERSION == 1

Topic(topicId, name) == [topicId |-> topicId, name |-> name]

\* exported snapshots: two topics (one with an id in use) and two words (one
\* with an id in use), and an export of an empty dictionary
SnapshotA ==
    [isObject |-> TRUE, topicsIsArray |-> TRUE, wordsIsArray |-> TRUE,
     schemaVersion |-> 1,
     topics |-> <<Topic("t1", "Imported"), Topic("t3", "Adverbs")>>,
     words |-> <<createWord(1, "t1"), createWord(3, "t3")>>]

SnapshotEmpty == [SnapshotA EXCEPT !.topics = <<>>, !.words = <<>>]

JsonNull ==
    [isObject |-> FALSE, topicsIsArray |-> FALSE, wordsIsArray |-> FALSE,
     schemaVersion |-> 0, topics |-> <<>>, words |-> <<>>]

ImportFiles ==
    { [wellFormed |-> FALSE, value |-> JsonNull],
      [wellFormed |-> TRUE, value |-> JsonNull],
      [wellFormed |-> TRUE, value |-> [SnapshotA EXCEPT !.topicsIsArray = FALSE, !.topics = <<>>]],
      [wellFormed |-> TRUE, value |-> [SnapshotA EXCEPT !.wordsIsArray = FALSE, !.words = <<>>]],
      [wellFormed |-> TRUE, value |-> [SnapshotA EXCEPT !.schemaVersion = 2]],
      [wellFormed |-> TRUE, value |-> SnapshotA],
      [wellFormed |-> TRUE, value |-> SnapshotEmpty] }

\* JSON.parse(text): the value of a well-formed text; it throws on any other
JSONParse(file) == file.value

\* !parsed || !Array.isArray(parsed.topics) || !Array.isArray(parsed.words)
InvalidSchema(parsed) ==
    ~parsed.isObject \/ ~parsed.topicsIsArray \/ ~parsed.wordsIsArray

\* a Map as the sequence of its entries in insertion order; set(key, value)
\* replaces the value of a key that is present and appends otherwise
MapSet(map, entry) ==
    IF \E i \in 1..Len(map) : map[i].key = entry.key
    THEN [i \in 1..Len(map) |-> IF map[i].key = entry.key THEN entry ELSE map[i]]
    ELSE Append(map, entry)

RECURSIVE MapSetAll(_, _)
MapSetAll(map, entries) ==
    IF entries = <<>> THEN map
    ELSE MapSetAll(MapSet(map, Head(entries)), Tail(entries))

\* Array.from(map.values())
MapValues(map) == [i \in 1..Len(map) |-> map[i].value]

TopicEntries(ts) == [i \in 1..Len(ts) |-> [key |-> ts[i].topicId, value |-> ts[i]]]
WordEntries(ws) == [i \in 1..Len(ws) |-> [key |-> ws[i].id, value |-> ws[i]]]

\* a merge in which the imported record replaces the existing one
MergedTopicsImportedWins(imported, existing) ==
    MapValues(MapSetAll(MapSetAll(<<>>, TopicEntries(existing)), TopicEntries(imported)))

\* mergedTopics: the imported topics, then every existing topic set over them
MergedTopics(imported, existing) ==
    MapValues(MapSetAll(MapSetAll(<<>>, TopicEntries(imported)), TopicEntries(existing)))

\* mergedWords
MergedWords(imported, existing) ==
    MapValues(MapSetAll(MapSetAll(<<>>, WordEntries(imported)), WordEntries(existing)))

\* store.put(topic): upsert by key
putTopic(store, topic) ==
    [topicId \in DOMAIN store \cup {topic.topicId} |->
        IF topicId = topic.topicId THEN topic ELSE store[topicId]]

\* the collections an import call sets when it ends
ImportedTopics(c) ==
    IF c.importMode = "replace" THEN c.parsed.topics
    ELSE MergedTopics(c.parsed.topics, c.topics)

ImportedWords(c) ==
    IF c.importMode = "replace" THEN c.parsed.words
    ELSE MergedWords(c.parsed.words, c.words)

PutRequests(ts, ws) ==
    [i \in 1..Len(ts) |-> [op |-> "putTopic", topic |-> ts[i]]]
    \o [i \in 1..Len(ws) |-> [op |-> "putWord", word |-> ws[i]]]

\* a replace import that does not clear the stores
StoreRequestsWithoutClear(c) ==
    PutRequests(ImportedTopics(c), ImportedWords(c))

\* the store requests an import call awaits, in order
StoreRequests(c) ==
    IF c.importMode = "replace"
    THEN <<[op |-> "clearAll"]>> \o PutRequests(c.parsed.topics, c.parsed.words)
    ELSE PutRequests(ImportedTopics(c), ImportedWords(c))

\* the end of a successful import: setTopics, setWords, notify
ImportDone(k) ==
    LET c == calls[k]
    IN  /\ topics' = ImportedTopics(c)
        /\ words' = ImportedWords(c)
        /\ message' = IF c.importMode = "replace" THEN "Imported (replace)."
                      ELSE "Imported (merge)."
        /\ calls' = RemoveAt(calls, k)

\* the "Merge" / "Replace" select
SetImportMode(mode) ==
    /\ mode # importMode
    /\ importMode' = mode
    /\ UNCHANGED <<words, dbWords, sessionConfig, sessionQueue, sessionIndex,
                   sessionStats, sessionTimerRef, sessionAttempts, sessionSeen,
                   pendingRating, message, timers, timerSeq, calls, now,
                   topics, dbTopics>>

\* a file is picked: handleImport(file) starts and awaits file.text()
handleImport(file) ==
    /\ Len(calls) < MaxImporting
    /\ calls' = Append([k \in 1..Len(calls) |-> [calls[k] EXCEPT !.overlapped = TRUE]],
                       [pc |-> "text", file |-> file, parsed |-> JsonNull,
                        importMode |-> importMode, topics |-> topics, words |-> words,
                        done |-> 0, overlapped |-> calls # <<>>])
    /\ UNCHANGED <<words, dbWords, sessionConfig, sessionQueue, sessionIndex,
                   sessionStats, sessionTimerRef, sessionAttempts, sessionSeen,
                   pendingRating, message, timers, timerSeq, now,
                   topics, dbTopics, importMode>>

\* file.text() resolves: the text is parsed and validated; a valid import
\* goes on to its first store request
FileRead(k) ==
    /\ k \in 1..Len(calls)
    /\ calls[k].pc = "text"
    /\ LET c == calls[k]
           parsed == JSONParse(c.file)
           valid == [c EXCEPT !.pc = "store", !.parsed = parsed]
       IN  IF ~c.file.wellFormed
           THEN \* JSON.parse throws: the call ends with the exception
                /\ calls' = RemoveAt(calls, k)
                /\ UNCHANGED <<words, topics, message>>
           ELSE IF InvalidSchema(parsed)
           THEN /\ message' = "Invalid schema."
                /\ calls' = RemoveAt(calls, k)
                /\ UNCHANGED <<words, topics>>
           ELSE IF parsed.schemaVersion # SCHEMA_VERSION
           THEN /\ message' = "Schema version mismatch. Only v1 supported."
                /\ calls' = RemoveAt(calls, k)
                /\ UNCHANGED <<words, topics>>
           ELSE IF StoreRequests(valid) = <<>>
           THEN /\ topics' = ImportedTopics(valid)
                /\ words' = ImportedWords(valid)
                /\ message' = "Imported (merge)."
                /\ calls' = RemoveAt(calls, k)
           ELSE /\ calls' = [calls EXCEPT ![k] = valid]
                /\ UNCHANGED <<words, topics, message>>
    /\ UNCHANGED <<dbWords, dbTopics, sessionConfig, sessionQueue, sessionIndex,
                   sessionStats, sessionTimerRef, sessionAttempts, sessionSeen,
                   pendingRating, timers, timerSeq, now, importMode>>

\* the store request an import call awaits succeeds; after the last one the
\* call sets the collections and notifies
ImportStored(k) ==
    /\ k \in 1..Len(calls)
    /\ calls[k].pc = "store"
    /\ LET c == calls[k]
           request == StoreRequests(c)[c.done + 1]
       IN  /\ CASE request.op = "clearAll" ->
                     dbTopics' = TopicStoreOf(<<>>) /\ dbWords' = StoreOf(<<>>)
                [] request.op = "putTopic" ->
                     dbTopics' = putTopic(dbTopics, request.topic) /\ dbWords' = dbWords
                [] request.op = "putWord" ->
                     dbWords' = putWord(dbWords, request.word) /\ dbTopics' = dbTopics
           /\ IF c.done + 1 = Len(StoreRequests(c))
              THEN ImportDone(k)
              ELSE /\ calls' = [calls EXCEPT ![k].done = c.done + 1]
                   /\ UNCHANGED <<words, topics, message>>
    /\ UNCHANGED <<sessionConfig, sessionQueue, sessionIndex,
                   sessionStats, sessionTimerRef, sessionAttempts, sessionSeen,
                   pendingRating, timers, timerSeq, now, importMode>>

\* the store request an import call awaits fails: the call ends there
ImportRejected(k) ==
    /\ k \in 1..Len(calls)
    /\ calls[k].pc = "store"
    /\ PutRejected(k)

\* the dictionary when the component has mounted: empty, or two topics with
\* a word each
InitImport ==
    /\ \/ topics = <<>> /\ words = <<>>
       \/ topics = LoadedTopics /\ words = <<Learned(1), createWord(2, "t2")>>
    /\ dbTopics = TopicStoreOf(topics)
    /\ dbWords = StoreOf(words)
    /\ importMode = "merge"
    /\ sessionConfig = FlashcardsConfig
    /\ sessionQueue = <<>>
    /\ sessionIndex = 0
    /\ sessionStats = emptyStats(0)
    /\ sessionTimerRef = NULL
    /\ sessionAttempts = <<>>
    /\ sessionSeen = {}
    /\ pendingRating = NoRating
    /\ message = ""
    /\ timers = {}
    /\ timerSeq = 0
    /\ calls = <<>>
    /\ now = 0

NextImport ==
    \/ \E mode \in {"merge", "replace"} : SetImportMode(mode)
    \/ \E file \in ImportFiles : handleImport(file)
    \/ \E k \in 1..MaxImporting : FileRead(k)
    \/ \E k \in 1..MaxImporting : ImportStored(k)
    \/ \E k \in 1..MaxImporting : ImportRejected(k)

SpecImport == InitImport /\ [][NextImport]_vars

----------------------------------------------------------------------------
(* Properties of the session runtime *)

ManualAnswers == {"none", "skip"}

\* a step in which handleRating is invoked and accepted
RatingAccepted == \E rating \in Ratings, manualAnswer \in ManualAnswers :
                      handleRating(rating, manualAnswer)

\* C1: once the session has ended (finishedAt set), a further handleRating call
\* is a no-op: the words, the stored words, the stats, the queue, the index and
\* the attempt counts stay as they are.
C1_RatingAfterEndIsNoOp ==
    [][(sessionStats.finishedAt # NULL /\ RatingAccepted) =>
          UNCHANGED <<words, dbWords, sessionStats, sessionQueue, sessionIndex,
                      sessionAttempts>>]_vars

\* a call for the item now shown is suspended on its putWord
RatingInFlight ==
    \E k \in 1..Len(calls) : /\ calls[k].pc = "putWord"
                             /\ calls[k].sessionQueue = sessionQueue
                             /\ calls[k].sessionIndex = sessionIndex

\* C2: while a rating of the current item is suspended on putWord, a second
\* handleRating call for that item is rejected and changes nothing.
C2_OneRatingInFlight ==
    [][(RatingInFlight /\ RatingAccepted) =>
          UNCHANGED <<words, dbWords, sessionStats, sessionQueue, sessionIndex,
                      sessionAttempts, sessionSeen>>]_vars

\* the call k, resumed, reinserts its item (its 1st or 2nd "again" of the word)
Reinserting(k) ==
    /\ RatingStored(k)
    /\ calls[k].rating = "again"
    /\ AttemptsOf(calls[k].sessionAttempts, calls[k].word.id) + 1 \in {1, 2}

\* C3: rating the item at index i of a queue of length n "again" (1st or 2nd
\* time) leaves that queue with one copy of the item inserted at
\* min(n, i + offset), offset in 5..7: length n + 1, nothing else moved.
C3_ReinsertedOnce ==
    [][\A k \in 1..Len(calls) :
          Reinserting(k) =>
             \E offset \in {5, 6, 7} :
                sessionQueue' =
                   Splice(calls[k].sessionQueue,
                          Min(Len(calls[k].sessionQueue), calls[k].sessionIndex + offset),
                          calls[k].item)]_vars

\* advanceSession marks the session complete in this step
NormalCompletion ==
    /\ \E k \in 1..Len(calls) : RatingStored(k) \/ PostponedStored(k)
    /\ sessionStats.finishedAt = NULL
    /\ sessionStats'.finishedAt # NULL

\* C4: the session is marked complete only when no queue item follows the
\* current one, the copy reinserted by the same rating included.
C4_CompleteOnlyWhenExhausted ==
    [][NormalCompletion => sessionIndex' + 1 >= Len(sessionQueue')]_vars

\* the call c rates "again" a word with two "again" counted in this session
ThirdAgain(c) ==
    c.rating = "again" /\ AttemptsOf(c.sessionAttempts, c.word.id) + 1 = 3

C6_NoStaleTimer ==
    /\ Cardinality(timers) <= 1
    /\ \A t \in timers : /\ t.id = timerSeq
                         /\ t.id = sessionTimerRef
                         /\ t.at = sessionStats.startedAt + SessionTimeout
    /\ sessionStats.finishedAt # NULL => timers = {}

\* a second session was started while the timer of the first was pending
C6_Witness ==
    /\ timerSeq = 2
    /\ timers = {[id |-> 2, at |-> sessionStats.startedAt + SessionTimeout]}

\* C7: finishedAt is assigned at most once between two session starts.
C7_FinishedOnce ==
    [][(sessionStats.finishedAt # NULL /\ timerSeq' = timerSeq) =>
          sessionStats'.finishedAt = sessionStats.finishedAt]_vars

TimeoutNotice == "Session timed out after 10 minutes."

\* the callback of a timer whose deadline is reached runs: the timer is gone
\* and sessionTimerRef still holds its id
DeadlineCallback ==
    \E t \in timers : /\ now >= t.at
                       /\ timers' = timers \ {t}
                       /\ sessionTimerRef' = sessionTimerRef

\* C8: an unfinished session has its deadline timer pending; when the deadline
\* callback runs, finishedAt is set and the timeout notice is shown; and every
\* started session eventually has finishedAt set unless a new session
\* replaces it.
C8_DeadlineEndsSession ==
    /\ [](timerSeq >= 1 /\ sessionStats.finishedAt = NULL =>
            \E t \in timers : t.at = sessionStats.startedAt + SessionTimeout)
    /\ [][DeadlineCallback =>
            sessionStats'.finishedAt = now /\ message' = TimeoutNotice]_vars
    /\ \A s \in 1..MaxQueued :
          (timerSeq = s /\ sessionStats.finishedAt = NULL)
             ~> (sessionStats.finishedAt # NULL \/ timerSeq # s)

\* a session ended by its deadline with nothing answered
C8_Witness ==
    /\ sessionStats.finishedAt = sessionStats.startedAt + SessionTimeout
    /\ message = TimeoutNotice
    /\ sessionStats.answered = 0
    /\ sessionIndex < Len(sessionQueue)

\* C9: an accepted rating adds 1 to answered, 1 to correct unless the rating
\* is "again", 1 to lapses if it is "again", 1 to dueDone if the item's origin
\* is due, 1 to newIntroduced if the word was new and unseen in the session,
\* 1 to movedCompleted if the word goes from non-completed to completed; total
\* and startedAt (and finishedAt) keep their values.
C9_StatsPerRating ==
    [][\A rating \in Ratings, manualAnswer \in ManualAnswers :
          handleRating(rating, manualAnswer) =>
             LET stored == calls'[Len(calls')].word
                 inc(b) == IF b THEN 1 ELSE 0
             IN  sessionStats' =
                   [total |-> sessionStats.total,
                    startedAt |-> sessionStats.startedAt,
                    finishedAt |-> sessionStats.finishedAt,
                    answered |-> sessionStats.answered + 1,
                    correct |-> sessionStats.correct + inc(rating # "again"),
                    lapses |-> sessionStats.lapses + inc(rating = "again"),
                    dueDone |-> sessionStats.dueDone + inc(currentItem.origin = "due"),
                    newIntroduced |-> sessionStats.newIntroduced
                        + inc(currentWord.status = "new" /\ currentWord.id \notin sessionSeen),
                    movedCompleted |-> sessionStats.movedCompleted
                        + inc(currentWord.status # "completed" /\ stored.status = "completed")]]_vars

\* a new word rated "again" and a learned word rated into completed
C9_Witness ==
    /\ calls = <<>>
    /\ sessionStats.answered = 2
    /\ sessionStats.correct = 1
    /\ sessionStats.lapses = 1
    /\ sessionStats.newIntroduced = 1
    /\ sessionStats.movedCompleted = 1

\* C10: every word reached from a freshly created one by ratings has
\* ease >= 1.3 and intervalDays >= 0.
C10_EaseAndIntervalBounds ==
    \A i \in 1..Len(words) : words[i].ease >= MIN_EASE /\ words[i].intervalDays >= 0

\* a word at the floor after MaxLapses "again"
C10_Witness ==
    /\ words[1].ease = MIN_EASE
    /\ words[1].lapses = MaxLapses

\* the word is rated with `rating`, by applyRating alone or through handleRating
RatedWith(rating) ==
    \/ SrsApplyRating(rating)
    \/ \E manualAnswer \in ManualAnswers : SrsHandleRating(rating, manualAnswer)

C30_NoRepsIffNoInterval ==
    \A i \in 1..Len(words) : words[i].reps = 0 <=> words[i].intervalDays = 0

\* a word that had a correct answer, then lapsed three times and was postponed
\* by a day: no repetitions and no interval
C30_Witness ==
    /\ words[1].rightCount >= 1
    /\ words[1].lapses = 3
    /\ words[1].dueAt = addDays(now, 1)
    /\ words[1].reps = 0
    /\ words[1].intervalDays = 0

----------------------------------------------------------------------------
(* Properties of applyRating *)

\* C11: for every input word, rating and time, the word applyRating returns
\* has ease >= 1.3.
C11_EaseFloorEveryCall ==
    [][\A rating \in Ratings :
          ApplyRatingOnce(rating) => words'[2].ease >= MIN_EASE]_vars

\* C12: "again" returns reps = 0, intervalDays = 0, dueAt = t + 10 minutes,
\* lapses + 1 and ease = max(1.3, ease - 0.2); hard, good and easy return
\* reps + 1, never 0.
C12_AgainResets ==
    [][\A rating \in Ratings :
          ApplyRatingOnce(rating) =>
             LET w == words[1]
                 u == words'[2]
             IN  IF rating = "again"
                 THEN /\ u.reps = 0
                      /\ u.intervalDays = 0
                      /\ u.dueAt = now + TenMinutes
                      /\ u.lapses = w.lapses + 1
                      /\ u.ease = (IF w.ease - 20 >= 130 THEN w.ease - 20 ELSE 130)
                 ELSE u.reps = w.reps + 1 /\ u.reps # 0]_vars

\* a word with repetitions and a low ease, after an "again" at time 1
C12_Witness ==
    /\ Len(words) = 2
    /\ words[1].reps = 5 /\ words[1].ease = 100 /\ words[1].lapses = 2
    /\ words[2].reps = 0 /\ words[2].ease = 130 /\ words[2].lapses = 3
    /\ words[2].dueAt = 2

\* C13: "good" returns intervalDays 1 for reps 0, 3 for reps 1 and
\* round(intervalDays * ease) for reps >= 2; ease and lapses stay, reps + 1,
\* dueAt = t + intervalDays days.
C13_GoodInterval ==
    [][ApplyRatingOnce("good") =>
          LET w == words[1]
              u == words'[2]
              \* round(intervalDays * ease), ease in hundredths: floor(x + 1/2)
              product == (w.intervalDays * w.ease + 50) \div 100
          IN  /\ u.intervalDays = (IF w.reps = 0 THEN 1
                                    ELSE IF w.reps = 1 THEN 3 ELSE product)
              /\ u.ease = w.ease
              /\ u.lapses = w.lapses
              /\ u.reps = w.reps + 1
              /\ u.dueAt = now + u.intervalDays * 144]_vars

\* reps 2, ease 2.0, interval 3 gives 6
C13_Witness ==
    /\ Len(words) = 2
    /\ words[1].reps = 2 /\ words[1].ease = 200 /\ words[1].intervalDays = 3
    /\ words[2].reps = 3 /\ words[2].ease = 200 /\ words[2].intervalDays = 6
    /\ words[2].dueAt = now + 6 * 144

\* C14: "hard" returns ease = max(1.3, ease - 0.05) and intervalDays =
\* max(1, round(intervalDays * 1.2)); "easy" returns ease + 0.1 and
\* intervalDays = max(4, round(intervalDays * (ease + 0.1) * 1.3)); both return
\* reps + 1, the same lapses, and dueAt = now + intervalDays days.
C14_HardAndEasy ==
    [][\A rating \in {"hard", "easy"} :
          ApplyRatingOnce(rating) =>
             LET w == words[1]
                 u == words'[2]
                 \* round(x) = floor(x + 1/2), ease in hundredths
                 hardDays == (w.intervalDays * 12 + 5) \div 10
                 easyDays == (w.intervalDays * (w.ease + 10) * 13 + 500) \div 1000
             IN  /\ rating = "hard" =>
                       /\ u.ease = (IF w.ease - 5 >= 130 THEN w.ease - 5 ELSE 130)
                       /\ u.intervalDays = (IF hardDays >= 1 THEN hardDays ELSE 1)
                 /\ rating = "easy" =>
                       /\ u.ease = w.ease + 10
                       /\ u.intervalDays = (IF easyDays >= 4 THEN easyDays ELSE 4)
                 /\ u.reps = w.reps + 1
                 /\ u.lapses = w.lapses
                 /\ u.dueAt = now + u.intervalDays * 144]_vars

\* "easy" on interval 10, ease 2.0: round(10 * 2.1 * 1.3) = 27 (26 with the
\* ease before the increase)
C14_Witness ==
    /\ Len(words) = 2
    /\ words[1].intervalDays = 10 /\ words[1].ease = 200
    /\ words[2].intervalDays = 27 /\ words[2].ease = 210
    /\ words[2].reps = words[1].reps + 1

\* C15: the returned status is in_progress for a completed word rated "again";
\* otherwise completed when the updated reps >= 5 and the updated
\* intervalDays >= 21; otherwise in_progress for a word that was new; otherwise
\* the status it had.
C15_StatusRules ==
    [][\A rating \in Ratings :
          ApplyRatingOnce(rating) =>
             LET w == words[1]
                 u == words'[2]
             IN  u.status =
                    CASE w.status = "completed" /\ rating = "again" -> "in_progress"
                      [] OTHER ->
                         CASE u.reps >= 5 /\ u.intervalDays >= 21 -> "completed"
                           [] OTHER ->
                              CASE w.status = "new" -> "in_progress"
                                [] OTHER -> w.status]_vars

\* reps 5 with interval 21 is completed
C15_Witness ==
    /\ Len(words) = 2
    /\ words[1].status = "in_progress"
    /\ words[2].reps = 5 /\ words[2].intervalDays = 21
    /\ words[2].status = "completed"

\* C25: isDue is true exactly when dueAt is absent or dueAt <= now: true
\* without a dueAt and at the instant dueAt, false one tick before it; a word
\* rated "again" at t is not due at t and is due at t + 10 minutes.
C25_DueExactlyFromDueAt ==
    [][\A rating \in Ratings :
          ApplyRatingOnce(rating) =>
             LET w == words[1]
                 u == words'[2]
             IN  /\ w.dueAt = NULL /\ isDue(w, now)
                 /\ u.dueAt # NULL
                 /\ isDue(u, u.dueAt)
                 /\ isDue(u, u.dueAt + 1)
                 /\ ~isDue(u, u.dueAt - 1)
                 /\ rating = "again" =>
                       /\ \A t \in 0..now : ~isDue(u, t)
                       /\ isDue(u, now + TenMinutes)]_vars

\* a word rated "again" at time 1: due from time 2 on
C25_Witness ==
    /\ Len(words) = 2
    /\ now = 1
    /\ words[2].reps = 0 /\ words[2].lapses = words[1].lapses + 1
    /\ words[2].dueAt = 2
    /\ ~isDue(words[2], 1) /\ isDue(words[2], 2)

\* C26: the status of the word handleRating stores is the status applyRating
\* computed for that word and rating.
C26_StoredStatusIsResolved ==
    [][\A rating \in Ratings, manualAnswer \in ManualAnswers :
          HandleRatingOnce(rating, manualAnswer) =>
             words'[2].status = applyRating(words[1], rating, now).status]_vars

----------------------------------------------------------------------------
(* Properties of the session builder *)

NoMatchNotice == "No words match the current filters."

\* the positions of the pool whose word passes the topic and the tag filter
Eligible ==
    {i \in 1..Len(words) :
        /\ sessionConfig.topicId \in {"all", words[i].topicId}
        /\ sessionConfig.tags = {} \/ \E tag \in sessionConfig.tags : tag \in words[i].tags}

\* the number of items of a queue with the given origin
OriginCount(queue, origin) ==
    Cardinality({k \in 1..Len(queue) : queue[k].origin = origin})

\* handleStartSession takes the queue buildSession returned (a step that
\* starts a session)
SessionStarted == handleStartSession /\ timerSeq' = timerSeq + 1

\* C16: buildSession returns exactly min(size, number of words passing the
\* filters) items: the started session has that many, and none is started
\* when that number is 0.
C16_SelectionLength ==
    [][handleStartSession =>
          LET passing == Cardinality(Eligible)
              expected == IF sessionConfig.size <= passing
                          THEN sessionConfig.size ELSE passing
          IN  IF expected = 0
              THEN timerSeq' = timerSeq /\ sessionQueue' = sessionQueue
              ELSE SessionStarted /\ Len(sessionQueue') = expected]_vars

\* a queue of size items cut from a larger filtered pool
C16_Witness ==
    /\ timerSeq = 1
    /\ Len(sessionQueue) = sessionConfig.size
    /\ sessionConfig.size = 4
    /\ Cardinality(Eligible) = 8

\* C17: for every size the three bucket targets are non-negative and sum to
\* size (6 + 3 + 1 for size 10); when every bucket holds at least its target,
\* the queue has exactly min(size, round(0.6 size)) due items,
\* min(size - that, round(0.25 size)) in_progress items and the rest new.
C17_BucketTargets ==
    [][handleStartSession =>
          /\ \A size \in 1..MaxTargetSize :
                /\ DueTarget(size) >= 0
                /\ InProgressTarget(size) >= 0
                /\ NewTarget(size) >= 0
                /\ DueTarget(size) + InProgressTarget(size) + NewTarget(size) = size
          /\ <<DueTarget(10), InProgressTarget(10), NewTarget(10)>> = <<6, 3, 1>>
          /\ LET size == sessionConfig.size
                 sixty == (size * 6 + 5) \div 10
                 quarter == (size * 25 + 50) \div 100
                 dueT == IF size <= sixty THEN size ELSE sixty
                 inProgressT == IF size - dueT <= quarter THEN size - dueT ELSE quarter
                 newT == size - dueT - inProgressT
                 due == {i \in Eligible : /\ words[i].status # "new"
                                          /\ (words[i].dueAt = NULL \/ words[i].dueAt <= now)}
                 inProgress == {i \in Eligible : /\ words[i].status = "in_progress"
                                                 /\ i \notin due}
                 new == {i \in Eligible : words[i].status = "new"}
             IN  (/\ Cardinality(due) >= dueT
                  /\ Cardinality(inProgress) >= inProgressT
                  /\ Cardinality(new) >= newT) =>
                     /\ OriginCount(sessionQueue', "due") = dueT
                     /\ OriginCount(sessionQueue', "in_progress") = inProgressT
                     /\ OriginCount(sessionQueue', "new") = newT]_vars

\* size 5 from a pool with three due, two in-progress and two new words
C17_Witness ==
    /\ timerSeq = 1
    /\ words = BigPool
    /\ sessionConfig.size = 5
    /\ Len(sessionQueue) = 5
    /\ OriginCount(sessionQueue, "due") = 3
    /\ OriginCount(sessionQueue, "in_progress") = 1
    /\ OriginCount(sessionQueue, "new") = 1

\* C18: every item of the queue buildSession returned is a word of the pool
\* that passes the topic and the tag filter, backfilled items included; no
\* session is started when no word passes.
C18_OnlyFilteredWords ==
    [][handleStartSession =>
          /\ SessionStarted =>
                \A k \in 1..Len(sessionQueue') :
                   \E i \in Eligible : words[i].id = sessionQueue'[k].id
          /\ Eligible = {} => ~SessionStarted /\ sessionQueue' = sessionQueue]_vars

\* with the tag filter "a": word 8 (completed, not due) comes in by backfill
C18_Witness ==
    /\ timerSeq = 1
    /\ words = BigPool
    /\ sessionConfig.tags = {"a"}
    /\ sessionConfig.topicId = "all"
    /\ Len(sessionQueue) = 3
    /\ \E k \in 1..Len(sessionQueue) : sessionQueue[k].id = 8

\* C19: when no word passes the filters, handleStartSession leaves the queue,
\* the index, the stats, the attempt counts, the seen set and the pending
\* deadline timer as they are, and shows the notice.
C19_EmptySelectionStartsNothing ==
    [][(handleStartSession /\ Eligible = {}) =>
          /\ UNCHANGED <<words, dbWords, sessionQueue, sessionIndex, sessionStats,
                         sessionAttempts, sessionSeen, pendingRating, timers,
                         sessionTimerRef, timerSeq>>
          /\ message' = NoMatchNotice]_vars

\* the notice shown over a running session whose timer is still pending
C19_Witness ==
    /\ message = NoMatchNotice
    /\ timerSeq = 1
    /\ sessionQueue # <<>>
    /\ sessionStats.finishedAt = NULL
    /\ timers = {[id |-> 1, at |-> sessionStats.startedAt + SessionTimeout]}

\* the positions of the pool in the three buckets of buildSession
DueBucket ==
    {i \in Eligible : /\ words[i].status # "new"
                      /\ (words[i].dueAt = NULL \/ words[i].dueAt <= now)}

InProgressBucket ==
    {i \in Eligible : words[i].status = "in_progress" /\ i \notin DueBucket}

NewBucket == {i \in Eligible : words[i].status = "new"}

\* word i is due strictly before word j (a missing dueAt is before every date)
DueBefore(i, j) ==
    \/ words[i].dueAt = NULL /\ words[j].dueAt # NULL
    \/ words[i].dueAt # NULL /\ words[j].dueAt # NULL /\ words[i].dueAt < words[j].dueAt

\* word i is harder than word j
HarderThan(i, j) ==
    words[i].lapses + words[i].wrongCount > words[j].lapses + words[j].wrongCount

\* the positions of the pool whose word is in the queue with the given origin
PositionsOf(queue, origin) ==
    {i \in 1..Len(words) :
        \E k \in 1..Len(queue) : queue[k].id = words[i].id /\ queue[k].origin = origin}

\* C28: each bucket contributes a prefix of its ordering: the due-origin items
\* are the min(dueTarget, |due|) due words with the smallest dueAt (a missing
\* dueAt being the earliest), the in-progress bucket gives its
\* min(inProgressTarget, |inProgress|) words with the largest
\* lapses + wrongCount, and the new bucket its first newTarget words in pool
\* order.
C28_BucketsGivePrefixes ==
    [][SessionStarted =>
          LET size == sessionConfig.size
              sixty == (size * 6 + 5) \div 10
              quarter == (size * 25 + 50) \div 100
              dueT == IF size <= sixty THEN size ELSE sixty
              inProgressT == IF size - dueT <= quarter THEN size - dueT ELSE quarter
              newT == size - dueT - inProgressT
              least(a, b) == IF a <= b THEN a ELSE b
              dueItems == PositionsOf(sessionQueue', "due")
          IN  /\ dueItems \subseteq DueBucket
              /\ Cardinality(dueItems) = least(dueT, Cardinality(DueBucket))
              /\ \A i \in dueItems, j \in DueBucket \ dueItems : ~DueBefore(j, i)
              /\ \E taken \in SUBSET InProgressBucket :
                    /\ Cardinality(taken) = least(inProgressT, Cardinality(InProgressBucket))
                    /\ taken \subseteq PositionsOf(sessionQueue', "in_progress")
                    /\ \A i \in taken, j \in InProgressBucket \ taken : ~HarderThan(j, i)
              /\ \A i \in NewBucket :
                    Cardinality({j \in NewBucket : j < i}) < newT =>
                       i \in PositionsOf(sessionQueue', "new")]_vars

\* size 4 from the large pool: the word without dueAt and the first of the two
\* words due at the same time, the harder in-progress word, the first new word
C28_Witness ==
    /\ timerSeq = 1
    /\ words = BigPool
    /\ sessionConfig.size = 4
    /\ Cardinality(Eligible) = 8
    /\ PositionsOf(sessionQueue, "due") = {1, 3}
    /\ PositionsOf(sessionQueue, "in_progress") = {5}
    /\ PositionsOf(sessionQueue, "new") = {6}

\* the positions the three buckets give: the first `target` of each bucket in
\* its order, equal keys in pool order
PickedFromBuckets(dueT, inProgressT, newT) ==
    {i \in DueBucket :
        Cardinality({j \in DueBucket :
            DueBefore(j, i) \/ (~DueBefore(i, j) /\ j < i)}) < dueT}
    \cup {i \in InProgressBucket :
        Cardinality({j \in InProgressBucket :
            HarderThan(j, i) \/ (~HarderThan(i, j) /\ j < i)}) < inProgressT}
    \cup {i \in NewBucket : Cardinality({j \in NewBucket : j < i}) < newT}

\* C29: when the buckets under-fill the session, the backfilled items are the
\* first filtered words not yet selected, in pool order, with origin new iff
\* the word's status is new and in_progress otherwise; origin due is carried
\* only by words of the due bucket, at most dueTarget of them; a completed
\* word that is not due is in the queue only as a backfilled item.
C29_BackfillInPoolOrder ==
    [][SessionStarted =>
          LET size == sessionConfig.size
              sixty == (size * 6 + 5) \div 10
              quarter == (size * 25 + 50) \div 100
              dueT == IF size <= sixty THEN size ELSE sixty
              inProgressT == IF size - dueT <= quarter THEN size - dueT ELSE quarter
              newT == size - dueT - inProgressT
              picked == PickedFromBuckets(dueT, inProgressT, newT)
              remaining == Eligible \ picked
              backfilled == {i \in remaining :
                                Cardinality({j \in remaining : j < i})
                                   < size - Cardinality(picked)}
              queued == {i \in 1..Len(words) :
                            \E k \in 1..Len(sessionQueue') :
                               sessionQueue'[k].id = words[i].id}
          IN  /\ queued = picked \cup backfilled
              /\ Len(sessionQueue') = Cardinality(queued)
              /\ \A i \in backfilled :
                    /\ words[i].status = "new" => i \in PositionsOf(sessionQueue', "new")
                    /\ words[i].status # "new" =>
                          i \in PositionsOf(sessionQueue', "in_progress")
              /\ PositionsOf(sessionQueue', "due") \subseteq DueBucket
              /\ OriginCount(sessionQueue', "due") <= dueT
              /\ \A i \in queued :
                    (words[i].status = "completed" /\ i \notin DueBucket) =>
                        i \in backfilled]_vars

\* size 4 from a pool of one due, one in-progress, one new and one resting
\* completed word: the resting word is backfilled as in_progress
C29_Witness ==
    /\ timerSeq = 1
    /\ Len(words) = 4
    /\ words[4].status = "completed" /\ ~isDue(words[4], now)
    /\ sessionConfig.size = 4
    /\ Len(sessionQueue) = 4
    /\ PositionsOf(sessionQueue, "due") = {1}
    /\ PositionsOf(sessionQueue, "in_progress") = {2, 4}
    /\ PositionsOf(sessionQueue, "new") = {3}

----------------------------------------------------------------------------
(* Properties of the import *)

\* the file passes the validation of handleImport
Accepted(file) ==
    /\ file.wellFormed
    /\ file.value.isObject /\ file.value.topicsIsArray /\ file.value.wordsIsArray
    /\ file.value.schemaVersion = 1

ImportFailureNotices == {"Invalid schema.", "Schema version mismatch. Only v1 supported."}

\* C21: an import whose document is malformed, lacks the topics or the words
\* array, or has a schemaVersion other than 1 writes nothing to the stores,
\* leaves the topics and words in memory as they are and notifies the reason,
\* under merge and under replace.
C21_InvalidImportReported ==
    [][\A k \in 1..Len(calls) :
          (FileRead(k) /\ ~Accepted(calls[k].file)) =>
             /\ dbTopics' = dbTopics /\ dbWords' = dbWords
             /\ topics' = topics /\ words' = words
             /\ message' \in ImportFailureNotices
             /\ (calls[k].file.wellFormed /\ calls[k].file.value.isObject
                   /\ calls[k].file.value.topicsIsArray
                   /\ calls[k].file.value.wordsIsArray) =>
                      message' = "Schema version mismatch. Only v1 supported."]_vars

\* the import call k, made under `mode`, ends successfully in this step
ImportCompleted(k, mode) ==
    /\ calls[k].importMode = mode
    /\ Accepted(calls[k].file)
    /\ ImportStored(k) \/ FileRead(k)
    /\ Len(calls') < Len(calls)

\* C22: after a merge import the topic ids (word ids) are the union of the
\* existing and the imported ids, one record per id; every existing record is
\* kept as it was, and an imported record is taken only for an id that did
\* not exist.  The stores hold the merged records (for an import that no
\* other import ran into).
C22_MergeKeepsExisting ==
    [][\A k \in 1..Len(calls) :
          ImportCompleted(k, "merge") =>
             LET c == calls[k]
                 imported == c.file.value
                 topicIds(ts) == {ts[i].topicId : i \in 1..Len(ts)}
                 wordIds(ws) == {ws[i].id : i \in 1..Len(ws)}
                 records(seq) == {seq[i] : i \in 1..Len(seq)}
             IN  /\ topicIds(topics') = topicIds(c.topics) \cup topicIds(imported.topics)
                 /\ wordIds(words') = wordIds(c.words) \cup wordIds(imported.words)
                 /\ Len(topics') = Cardinality(topicIds(topics'))
                 /\ Len(words') = Cardinality(wordIds(words'))
                 /\ records(c.topics) \subseteq records(topics')
                 /\ records(c.words) \subseteq records(words')
                 /\ \A t \in records(topics') :
                       t.topicId \notin topicIds(c.topics) => t \in records(imported.topics)
                 /\ \A w \in records(words') :
                       w.id \notin wordIds(c.words) => w \in records(imported.words)
                 /\ ~c.overlapped =>
                       /\ c.topics = topics /\ c.words = words
                       /\ \A t \in records(topics') :
                             t.topicId \in DOMAIN dbTopics' /\ dbTopics'[t.topicId] = t
                       /\ \A w \in records(words') :
                             w.id \in DOMAIN dbWords' /\ dbWords'[w.id] = w]_vars

\* the snapshot merged into the dictionary of two topics and two words: the
\* topic and the word whose ids were in use are the existing ones
C22_Witness ==
    /\ calls = <<>>
    /\ message = "Imported (merge)."
    /\ topics = <<Topic("t1", "Verbs"), Topic("t3", "Adverbs"), Topic("t2", "Nouns")>>
    /\ words = <<Learned(1), createWord(3, "t3"), createWord(2, "t2")>>
    /\ DOMAIN dbTopics = {"t1", "t2", "t3"}
    /\ DOMAIN dbWords = {1, 2, 3}
    /\ dbWords[1] = Learned(1)

\* C23: after a successful replace import the collections in memory and the
\* stores hold exactly the topics and words of the snapshot, whatever they
\* held before; the store state is thus fixed by the snapshot alone, and
\* importing the same snapshot again with replace gives the same store state.
C23_ReplaceLeavesTheSnapshot ==
    [][\A k \in 1..Len(calls) :
          ImportCompleted(k, "replace") =>
             LET c == calls[k]
                 snapshot == c.file.value
             IN  /\ topics' = snapshot.topics
                 /\ words' = snapshot.words
                 /\ ~c.overlapped =>
                       /\ DOMAIN dbTopics' =
                             {snapshot.topics[i].topicId : i \in 1..Len(snapshot.topics)}
                       /\ DOMAIN dbWords' =
                             {snapshot.words[i].id : i \in 1..Len(snapshot.words)}
                       /\ \A i \in 1..Len(snapshot.topics) :
                             dbTopics'[snapshot.topics[i].topicId] = snapshot.topics[i]
                       /\ \A i \in 1..Len(snapshot.words) :
                             dbWords'[snapshot.words[i].id] = snapshot.words[i]
                       /\ (c.topics = snapshot.topics /\ c.words = snapshot.words
                            /\ message = "Imported (replace).") =>
                              (dbTopics' = TopicStoreOf(c.topics)
                                 /\ dbWords' = StoreOf(c.words))]_vars

\* the snapshot imported with replace over the dictionary of two topics and
\* two words: topic t2 and word 2 are gone, word 1 is the imported one
C23_Witness ==
    /\ calls = <<>>
    /\ message = "Imported (replace)."
    /\ topics = SnapshotA.topics
    /\ words = SnapshotA.words
    /\ DOMAIN dbTopics = {"t1", "t3"}
    /\ DOMAIN dbWords = {1, 3}
    /\ dbWords[1] = createWord(1, "t1")
    /\ dbTopics["t1"] = Topic("t1", "Imported")

\* C33: for a pool of pairwise distinct word ids the three buckets are
\* disjoint and the queue buildSession returns holds no word id twice.
C33_OneItemPerWord ==
    [][SessionStarted =>
          /\ DueBucket \cap InProgressBucket = {}
          /\ DueBucket \cap NewBucket = {}
          /\ InProgressBucket \cap NewBucket = {}
          /\ \A k, l \in 1..Len(sessionQueue') :
                sessionQueue'[k].id = sessionQueue'[l].id => k = l]_vars

\* size 5 over the three words with tag "a" of the large pool: the buckets
\* give two of them and the backfill the third
C33_Witness ==
    /\ timerSeq = 1
    /\ words = BigPool
    /\ sessionConfig.size = 5
    /\ sessionConfig.tags = {"a"}
    /\ Len(sessionQueue) = 3
    /\ {sessionQueue[k].id : k \in 1..Len(sessionQueue)} = {5, 7, 8}

----------------------------------------------------------------------------
(* Persistence failures *)

\* C20: when the putWord(updated) of a rating is rejected, the word of the
\* collection still takes the rating result and the session still advances
\* (to the next index, or to its completion).
C20_RejectedWriteKeepsProgress ==
    [][\A k \in 1..Len(calls) :
          (PutRejected(k) /\ calls[k].pc = "putWord") =>
             /\ \A i \in 1..Len(words') :
                   words'[i].id = calls[k].word.id => words'[i] = calls[k].word
             /\ \/ sessionIndex' = calls[k].sessionIndex + 1
                \/ sessionStats'.finishedAt # NULL]_vars

----------------------------------------------------------------------------
(* The counters of a word *)

\* C24: while the session runtime rates words, the lapses, rightCount,
\* wrongCount and skipCount of a word of the collection never decrease.
C24_CountersNeverDecrease ==
    [][\A i \in 1..Len(words) :
          /\ words'[i].lapses >= words[i].lapses
          /\ words'[i].rightCount >= words[i].rightCount
          /\ words'[i].wrongCount >= words[i].wrongCount
          /\ words'[i].skipCount >= words[i].skipCount]_vars

----------------------------------------------------------------------------
(* The statistics and the retries of a session *)

\* C32: in every state of a session correct + lapses = answered, and
\* newIntroduced, dueDone and movedCompleted are each at most answered; total
\* is the length of the queue as it was built and no later step changes it
\* (a reinsertion lengthens the queue, not total).
C32_StatsAddUp ==
    [][/\ sessionStats'.correct + sessionStats'.lapses = sessionStats'.answered
       /\ sessionStats'.newIntroduced <= sessionStats'.answered
       /\ sessionStats'.dueDone <= sessionStats'.answered
       /\ sessionStats'.movedCompleted <= sessionStats'.answered
       /\ IF SessionStarted
          THEN sessionStats'.total = Len(sessionQueue')
          ELSE sessionStats'.total = sessionStats.total]_vars

\* a session of two words after an "again" (the word is reinserted) and a
\* correct answer
C32_Witness ==
    /\ calls = <<>>
    /\ sessionStats.total = 2
    /\ Len(sessionQueue) = 3
    /\ sessionStats.answered = 2
    /\ sessionStats.lapses = 1
    /\ sessionStats.correct = 1
    /\ sessionStats.newIntroduced = 1

\* C34: within a session the attempt count of a word is never above 3, a word
\* is at no more than 3 positions of the queue, the queue is never longer
\* than 3 * total, and answered is never above 3 * total.
C34_RetriesBounded ==
    /\ \A id \in DOMAIN sessionAttempts : sessionAttempts[id] <= 3
    /\ \A i \in 1..Len(words) :
          Cardinality({k \in 1..Len(sessionQueue) : sessionQueue[k].id = words[i].id}) <= 3
    /\ Len(sessionQueue) <= 3 * sessionStats.total
    /\ sessionStats.answered <= 3 * sessionStats.total

----------------------------------------------------------------------------
(* Mastery *)

\* C31: after any sequence of session ratings of a freshly created word, the
\* status is completed exactly when reps >= 5 and intervalDays >= 21, and a
\* rated word is never new again; so a word is not completed before five
\* consecutive correct ratings, and a completed word stays completed under
\* hard, good and easy.
C31_CompletedIffMastered ==
    [][/\ \A i \in 1..Len(words') :
             /\ words'[i].status = "completed" <=>
                   (words'[i].reps >= 5 /\ words'[i].intervalDays >= 21)
             /\ words'[i].rightCount + words'[i].wrongCount > 0 =>
                   words'[i].status # "new"
       /\ \A rating \in {"hard", "good", "easy"}, manualAnswer \in ManualAnswers :
             (SessionRating(rating, manualAnswer) /\ words[1].status = "completed") =>
                words'[1].status = "completed"]_vars

\* a word completed by five correct ratings and rated correctly once more
C31_Witness ==
    /\ words[1].status = "completed"
    /\ words[1].reps = 6
    /\ words[1].intervalDays >= 21
    /\ words[1].rightCount = 6

====
